---- MODULE Spec2Model ----
(***************************************************************************)
(* esync: a counting semaphore (src/src/semaphore.rs) and the bounded      *)
(* parallel map built on it (src/src/worker_threads.rs).                   *)
(*                                                                         *)
(* Every thread of control has a program counter pc[t].  The labels of the *)
(* semaphore's methods name the statement the thread executes next; one    *)
(* action is one statement, so that every interleaving the mutex allows is *)
(* a behaviour of the model.                                               *)
(***************************************************************************)
EXTENDS Integers, Naturals, Sequences, FiniteSets, Bags, TLC

(***************************************************************************)
(* Bounds of the model.                                                    *)
(***************************************************************************)
\* threads besides thread 0: the callers of the semaphore, the tasks of process
MaxTasks == 3
\* calls of wait() and release() the callers of the semaphore may make in all
MaxOps == 4
\* largest initial value / number of workers
MaxInit == 2
\* the items of process are drawn from 1..MaxItem
MaxItem == 2

(***************************************************************************)
(* u32, the type of the count (Mutex<u32>).  A u32 is kept as two 16-bit   *)
(* limbs so that every value up to 2^32 - 1 is representable.              *)
(***************************************************************************)
U32Bits == 32
Limb == 2 ^ (U32Bits \div 2)

U32(n) == [hi |-> n \div Limb, lo |-> n % Limb]
U32Max == [hi |-> Limb - 1, lo |-> Limb - 1]
IsZero(c) == c.hi = 0 /\ c.lo = 0
\* c + n modulo 2^32, for a small n
WrappingAdd(c, n) ==
    [hi |-> (c.hi + ((c.lo + n) \div Limb)) % Limb, lo |-> (c.lo + n) % Limb]
\* c - 1 modulo 2^32
WrappingSub1(c) ==
    IF c.lo > 0 THEN [hi |-> c.hi, lo |-> c.lo - 1]
    ELSE [hi |-> (c.hi + Limb - 1) % Limb, lo |-> Limb - 1]

(***************************************************************************)
(* State.                                                                  *)
(***************************************************************************)
VARIABLES
    count,          \* the u32 inside _mutex
    holder,         \* the thread that holds _mutex's guard, or NoThread
    poisoned,       \* _mutex is poisoned: a thread panicked holding the guard
    cv_waiters,     \* the threads asleep in _cv.wait
    pc,             \* pc[t]: the statement thread t executes next
    got,            \* got[t]: what get_current_value last returned to t
    initial_value,  \* the argument of Semaphore::new
    nWait,          \* decrements done by wait() calls so far
    nRel,           \* increments done by release() calls so far
    items,          \* process: the input sequence
    failOn,         \* process: the items on which the transform panics
    next,           \* process: items taken from the iterator so far
    threads,        \* process: the stack of join handles
    result,         \* process: result[t], what task t returned
    retval,         \* process: the result vector
    outcome         \* process: "none", "running", "returned", "panicked"

semVars == <<count, holder, poisoned, cv_waiters>>
histVars == <<initial_value, nWait, nRel>>
procVars == <<items, failOn, next, threads, result, retval, outcome>>
vars == <<count, holder, poisoned, cv_waiters, pc, got, initial_value,
          nWait, nRel, items, failOn, next, threads, result, retval, outcome>>

\* thread 0 is the thread that calls process; the others are the callers of
\* the semaphore and, in process, the spawned tasks
Thread == 0 .. MaxTasks
Dispatcher == 0
Task == Thread \ {Dispatcher}
NoThread == -1
NoValue == [hi |-> -1, lo |-> -1]

\* the thread t moves to label l
Goto(t, l) == pc' = [pc EXCEPT ![t] = l]

\* a panic of thread t: the thread unwinds; a guard it holds is dropped while
\* panicking, which poisons the mutex
Panic(t) ==
    /\ Goto(t, "panicked")
    /\ IF holder = t
       THEN holder' = NoThread /\ poisoned' = TRUE
       ELSE UNCHANGED <<holder, poisoned>>

\* self._mutex.lock().unwrap(): blocks while another thread holds the guard;
\* on a poisoned mutex lock() returns Err and unwrap() panics
LockUnwrap(t, l) ==
    /\ holder = NoThread
    /\ IF poisoned
       THEN Panic(t)
       ELSE holder' = t /\ Goto(t, l) /\ UNCHANGED poisoned

(***************************************************************************)
(* Semaphore::new                                                          *)
(***************************************************************************)
SemaphoreNew(v) ==
    /\ count = v
    /\ holder = NoThread
    /\ poisoned = FALSE
    /\ cv_waiters = {}
    /\ initial_value = v
    /\ nWait = 0
    /\ nRel = 0
    /\ got = [t \in Thread |-> NoValue]

(***************************************************************************)
(* Semaphore::wait                                                         *)
(***************************************************************************)
\* line 33: let mut guard = self._mutex.lock().unwrap();
WaitLock(t) ==
    /\ pc[t] = "wait_lock"
    /\ LockUnwrap(t, "wait_test")
    /\ UNCHANGED <<count, cv_waiters, got, histVars, procVars>>

\* WaitTest without the test of line 34: the decrement is reached whatever the
\* count is
WaitTestNoGuard(t) ==
    /\ pc[t] = "wait_test"
    /\ Goto(t, "wait_dec")
    /\ UNCHANGED <<semVars, got, histVars, procVars>>

\* WaitTest dropping the guard after the test of line 34: the decrement is
\* done outside the critical section of the test
WaitTestThenUnlock(t) ==
    /\ pc[t] = "wait_test"
    /\ IF ~IsZero(count)
       THEN holder' = NoThread /\ Goto(t, "wait_dec")
       ELSE holder' = holder /\ Goto(t, "wait_while")
    /\ UNCHANGED <<count, poisoned, cv_waiters, got, histVars, procVars>>

\* line 34: if *guard > 0
WaitTest(t) ==
    /\ pc[t] = "wait_test"
    /\ Goto(t, IF ~IsZero(count) THEN "wait_dec" ELSE "wait_while")
    /\ UNCHANGED <<semVars, got, histVars, procVars>>

\* WaitDec without the decrement of line 35
WaitDecNone(t) ==
    /\ pc[t] = "wait_dec"
    /\ nWait' = nWait + 1
    /\ Goto(t, "wait_ret")
    /\ UNCHANGED <<semVars, got, initial_value, nRel, procVars>>

\* line 35: *guard -= 1;  on a zero count the subtraction overflows: a panic
\* where overflow checks are compiled in, a wrap to 2^32 - 1 where they are not
WaitDec(t) ==
    /\ pc[t] = "wait_dec"
    /\ \/ /\ ~IsZero(count)
          /\ count' = WrappingSub1(count)
          /\ nWait' = nWait + 1
          /\ Goto(t, "wait_ret")
          /\ UNCHANGED <<holder, poisoned>>
       \/ /\ IsZero(count)
          /\ count' = WrappingSub1(count)
          /\ nWait' = nWait + 1
          /\ Goto(t, "wait_ret")
          /\ UNCHANGED <<holder, poisoned>>
       \/ /\ IsZero(count)
          /\ Panic(t)
          /\ UNCHANGED <<count, nWait>>
    /\ UNCHANGED <<cv_waiters, got, initial_value, nRel, procVars>>

\* line 37: return;  the guard is dropped
WaitReturn(t) ==
    /\ pc[t] = "wait_ret"
    /\ holder' = NoThread
    /\ Goto(t, "wait_done")
    /\ UNCHANGED <<count, poisoned, cv_waiters, got, histVars, procVars>>

\* line 40: while *guard == 0 { guard = self._cv.wait(guard).unwrap(); }
\* _cv.wait releases the mutex and puts the thread to sleep in one step; when
\* the loop ends the guard is dropped at the end of the outer loop's body
\* (line 43) and the outer loop starts again at line 33
WaitWhile(t) ==
    /\ pc[t] = "wait_while"
    /\ holder' = NoThread
    /\ IF IsZero(count)
       THEN cv_waiters' = cv_waiters \cup {t} /\ Goto(t, "wait_asleep")
       ELSE cv_waiters' = cv_waiters /\ Goto(t, "wait_lock")
    /\ UNCHANGED <<count, poisoned, got, histVars, procVars>>

\* a condition variable may wake a sleeper that nobody notified
SpuriousWakeup(t) ==
    /\ pc[t] = "wait_asleep"
    /\ t \in cv_waiters
    /\ cv_waiters' = cv_waiters \ {t}
    /\ Goto(t, "wait_relock")
    /\ UNCHANGED <<count, holder, poisoned, got, histVars, procVars>>

\* WaitRelock with an `if` in place of the `while` of line 40: a woken thread
\* takes the count for positive and goes on to the decrement
WaitRelockNoRecheck(t) ==
    /\ pc[t] = "wait_relock"
    /\ LockUnwrap(t, "wait_dec")
    /\ UNCHANGED <<count, cv_waiters, got, histVars, procVars>>

\* line 41: a woken thread takes the mutex again before _cv.wait returns; on a
\* poisoned mutex _cv.wait returns Err and unwrap() panics
WaitRelock(t) ==
    /\ pc[t] = "wait_relock"
    /\ LockUnwrap(t, "wait_while")
    /\ UNCHANGED <<count, cv_waiters, got, histVars, procVars>>

(***************************************************************************)
(* Semaphore::release                                                      *)
(***************************************************************************)
\* line 48: let mut guard = self._mutex.lock().unwrap();
ReleaseLock(t) ==
    /\ pc[t] = "rel_lock"
    /\ LockUnwrap(t, "rel_inc")
    /\ UNCHANGED <<count, cv_waiters, got, histVars, procVars>>

\* ReleaseInc of a binary semaphore: the count is set to 1
ReleaseIncBinary(t) ==
    /\ pc[t] = "rel_inc"
    /\ count' = U32(1)
    /\ nRel' = nRel + 1
    /\ Goto(t, "rel_notify")
    /\ UNCHANGED <<holder, poisoned, cv_waiters, got, initial_value, nWait,
                   procVars>>

\* ReleaseInc giving back two units
ReleaseIncTwice(t) ==
    /\ pc[t] = "rel_inc"
    /\ count' = WrappingAdd(count, 2)
    /\ nRel' = nRel + 1
    /\ Goto(t, "rel_notify")
    /\ UNCHANGED <<holder, poisoned, cv_waiters, got, initial_value, nWait,
                   procVars>>

\* ReleaseInc of a semaphore capped at the value it was built with
ReleaseIncCapped(t) ==
    /\ pc[t] = "rel_inc"
    /\ count' = IF count = initial_value THEN count ELSE WrappingAdd(count, 1)
    /\ nRel' = nRel + 1
    /\ Goto(t, "rel_notify")
    /\ UNCHANGED <<holder, poisoned, cv_waiters, got, initial_value, nWait,
                   procVars>>

\* line 49: *guard += 1;  at 2^32 - 1 the addition overflows: a panic where
\* overflow checks are compiled in, a wrap to 0 where they are not
ReleaseInc(t) ==
    /\ pc[t] = "rel_inc"
    /\ \/ /\ count # U32Max
          /\ count' = WrappingAdd(count, 1)
          /\ nRel' = nRel + 1
          /\ Goto(t, "rel_notify")
          /\ UNCHANGED <<holder, poisoned>>
       \/ /\ count = U32Max
          /\ count' = WrappingAdd(count, 1)
          /\ nRel' = nRel + 1
          /\ Goto(t, "rel_notify")
          /\ UNCHANGED <<holder, poisoned>>
       \/ /\ count = U32Max
          /\ Panic(t)
          /\ UNCHANGED <<count, nRel>>
    /\ UNCHANGED <<cv_waiters, got, initial_value, nWait, procVars>>

\* ReleaseNotify without the notify_all of line 50
ReleaseNotifyNone(t) ==
    /\ pc[t] = "rel_notify"
    /\ Goto(t, "rel_unlock")
    /\ UNCHANGED <<semVars, got, histVars, procVars>>

\* line 50: self._cv.notify_all();  every sleeper is woken
ReleaseNotify(t) ==
    /\ pc[t] = "rel_notify"
    /\ cv_waiters' = {}
    /\ pc' = [u \in Thread |->
                IF u = t THEN "rel_unlock"
                ELSE IF u \in cv_waiters THEN "wait_relock"
                ELSE pc[u]]
    /\ UNCHANGED <<count, holder, poisoned, got, histVars, procVars>>

\* line 51: the guard is dropped when release returns
ReleaseUnlock(t) ==
    /\ pc[t] = "rel_unlock"
    /\ holder' = NoThread
    /\ Goto(t, "rel_done")
    /\ UNCHANGED <<count, poisoned, cv_waiters, got, histVars, procVars>>

(***************************************************************************)
(* Semaphore::get_current_value                                            *)
(***************************************************************************)
\* line 59: self._mutex.lock().unwrap()
GetLock(t) ==
    /\ pc[t] = "get_lock"
    /\ LockUnwrap(t, "get_read")
    /\ UNCHANGED <<count, cv_waiters, got, histVars, procVars>>

\* GetRead that, like wait(), sleeps on the condition variable at count 0
GetReadWaitsOnZero(t) ==
    /\ pc[t] = "get_read"
    /\ holder' = NoThread
    /\ IF IsZero(count)
       THEN /\ cv_waiters' = cv_waiters \cup {t}
            /\ Goto(t, "wait_asleep")
            /\ UNCHANGED got
       ELSE /\ got' = [got EXCEPT ![t] = count]
            /\ Goto(t, "get_done")
            /\ UNCHANGED cv_waiters
    /\ UNCHANGED <<count, poisoned, histVars, procVars>>

\* line 59: the count is copied out and the temporary guard is dropped
GetRead(t) ==
    /\ pc[t] = "get_read"
    /\ got' = [got EXCEPT ![t] = count]
    /\ holder' = NoThread
    /\ Goto(t, "get_done")
    /\ UNCHANGED <<count, poisoned, cv_waiters, histVars, procVars>>

WaitStep(t) ==
    \/ WaitLock(t) \/ WaitTest(t) \/ WaitDec(t) \/ WaitReturn(t)
    \/ WaitWhile(t) \/ WaitRelock(t)

ReleaseStep(t) ==
    \/ ReleaseLock(t) \/ ReleaseInc(t) \/ ReleaseNotify(t) \/ ReleaseUnlock(t)

GetStep(t) == GetLock(t) \/ GetRead(t)

(***************************************************************************)
(* Callers of the semaphore: any number of threads, each making any calls  *)
(* of wait(), release() and get_current_value(), one after the other.      *)
(***************************************************************************)
Between(t) == pc[t] \in {"idle", "wait_done", "rel_done", "get_done"}

\* the threads inside a wait() that has not yet decremented or inside a
\* release() that has not yet incremented
Pending ==
    {t \in Thread : pc[t] \in {"wait_lock", "wait_test", "wait_dec",
                               "wait_while", "wait_asleep", "wait_relock",
                               "rel_lock", "rel_inc"}}

\* the calls of wait() and release() made so far, by all callers
Calls == nWait + nRel + Cardinality(Pending)

CallWait(t) ==
    /\ Between(t) /\ Calls < MaxOps
    /\ got' = [got EXCEPT ![t] = NoValue]
    /\ Goto(t, "wait_lock")
    /\ UNCHANGED <<semVars, histVars, procVars>>

CallRelease(t) ==
    /\ Between(t) /\ Calls < MaxOps
    /\ got' = [got EXCEPT ![t] = NoValue]
    /\ Goto(t, "rel_lock")
    /\ UNCHANGED <<semVars, histVars, procVars>>

CallGet(t) ==
    /\ Between(t)
    /\ got' = [got EXCEPT ![t] = NoValue]
    /\ Goto(t, "get_lock")
    /\ UNCHANGED <<semVars, histVars, procVars>>

NoProcess ==
    /\ items = <<>>
    /\ failOn = {}
    /\ next = 0
    /\ threads = <<>>
    /\ result = [t \in Thread |-> 0]
    /\ retval = <<>>
    /\ outcome = "none"

InitSem ==
    /\ \E v \in 0 .. MaxInit : SemaphoreNew(U32(v))
    /\ pc = [t \in Thread |-> "idle"]
    /\ NoProcess

NextSem ==
    \E t \in Task :
        \/ CallWait(t) \/ CallRelease(t) \/ CallGet(t)
        \/ WaitStep(t) \/ SpuriousWakeup(t) \/ ReleaseStep(t) \/ GetStep(t)

SpecSem == InitSem /\ [][NextSem]_vars

(***************************************************************************)
(* process (src/src/worker_threads.rs).  Thread 0 is the calling thread,   *)
(* which dispatches; thread i >= 1 is the task spawned for the i-th item.  *)
(***************************************************************************)
\* the transform of the documentation's example (line 12): |x| x * x
Predicate(x) == x * x

\* every sequence of at most n elements of S
SeqUpTo(S, n) == UNION {[1 .. k -> S] : k \in 0 .. n}

\* a thread that has ended, by returning or by panicking
Ended(t) == pc[t] \in {"finished", "panicked"}
Spawned(t) == pc[t] # "unspawned"

\* lines 23-27: retval = vec![]; sem = Semaphore::new(workers); threads = vec![]
InitProc ==
    /\ items \in SeqUpTo(1 .. MaxItem, MaxTasks)
    /\ failOn \in SUBSET (1 .. MaxItem)
    /\ \E workers \in 0 .. MaxInit : SemaphoreNew(U32(workers))
    /\ next = 0
    /\ threads = <<>>
    /\ result = [t \in Thread |-> 0]
    /\ retval = <<>>
    /\ outcome = "running"
    /\ pc = [t \in Thread |-> IF t = Dispatcher THEN "for_next" ELSE "unspawned"]

\* ForNext without the sem.wait() of line 29
ForNextNoWait ==
    /\ pc[Dispatcher] = "for_next"
    /\ IF next < Len(items)
       THEN next' = next + 1 /\ Goto(Dispatcher, "wait_done")
       ELSE next' = next /\ Goto(Dispatcher, "join_pop")
    /\ UNCHANGED <<semVars, got, histVars, items, failOn, threads, result,
                   retval, outcome>>

\* ForNext calling sem.wait() before it asks the iterator for an item
ForNextWaitFirst ==
    /\ pc[Dispatcher] = "for_next"
    /\ next' = IF next < Len(items) THEN next + 1 ELSE next
    /\ Goto(Dispatcher, "wait_lock")
    /\ UNCHANGED <<semVars, got, histVars, items, failOn, threads, result,
                   retval, outcome>>

\* line 28: for s in it;  line 29: sem.wait() is called for the item taken
ForNext ==
    /\ pc[Dispatcher] = "for_next"
    /\ IF next < Len(items)
       THEN next' = next + 1 /\ Goto(Dispatcher, "wait_lock")
       ELSE next' = next /\ Goto(Dispatcher, "join_pop")
    /\ UNCHANGED <<semVars, got, histVars, items, failOn, threads, result,
                   retval, outcome>>

\* line 30: threads.push(sc.spawn(...)), once sem.wait() has returned
Spawn ==
    /\ pc[Dispatcher] = "wait_done"
    /\ threads' = Append(threads, next)
    /\ pc' = [pc EXCEPT ![Dispatcher] = "for_next", ![next] = "task_start"]
    /\ UNCHANGED <<semVars, got, histVars, items, failOn, next, result,
                   retval, outcome>>

\* TaskStart of a closure that calls sem.release() ahead of predicate(s)
TaskStartReleaseFirst(t) ==
    /\ pc[t] = "task_start"
    /\ Goto(t, "rel_lock")
    /\ UNCHANGED <<semVars, got, histVars, procVars>>

\* line 31: the spawned thread starts to evaluate predicate(s)
TaskStart(t) ==
    /\ pc[t] = "task_start"
    /\ Goto(t, "task_eval")
    /\ UNCHANGED <<semVars, got, histVars, procVars>>

\* TaskEval without the sem.release() of line 32
TaskEvalNoRelease(t) ==
    /\ pc[t] = "task_eval"
    /\ IF items[t] \in failOn
       THEN Panic(t) /\ UNCHANGED result
       ELSE /\ result' = [result EXCEPT ![t] = Predicate(items[t])]
            /\ Goto(t, "rel_done")
            /\ UNCHANGED <<holder, poisoned>>
    /\ UNCHANGED <<count, cv_waiters, got, histVars, items, failOn, next,
                   threads, retval, outcome>>

\* line 31: predicate(s) ends: it returns r, or it panics and the thread
\* unwinds without reaching line 32;  line 32: sem.release() is called
TaskEval(t) ==
    /\ pc[t] = "task_eval"
    /\ IF items[t] \in failOn
       THEN Panic(t) /\ UNCHANGED result
       ELSE /\ result' = [result EXCEPT ![t] = Predicate(items[t])]
            /\ Goto(t, "rel_lock")
            /\ UNCHANGED <<holder, poisoned>>
    /\ UNCHANGED <<count, cv_waiters, got, histVars, items, failOn, next,
                   threads, retval, outcome>>

\* line 33: the closure returns r and the thread ends
TaskReturn(t) ==
    /\ t \in Task
    /\ pc[t] = "rel_done"
    /\ Goto(t, "finished")
    /\ UNCHANGED <<semVars, got, histVars, procVars>>

\* Join storing the joined result in place of pushing it
JoinAssign ==
    /\ pc[Dispatcher] = "join_pop"
    /\ threads # <<>>
    /\ LET t == threads[Len(threads)] IN
        /\ Ended(t)
        /\ threads' = SubSeq(threads, 1, Len(threads) - 1)
        /\ IF pc[t] = "finished"
           THEN /\ retval' = <<result[t]>>
                /\ UNCHANGED <<pc, holder, poisoned>>
           ELSE /\ Panic(Dispatcher)
                /\ UNCHANGED retval
    /\ UNCHANGED <<count, cv_waiters, got, histVars, items, failOn, next,
                   result, outcome>>

\* Join taking the oldest handle (a queue) in place of threads.pop()
JoinFront ==
    /\ pc[Dispatcher] = "join_pop"
    /\ threads # <<>>
    /\ LET t == Head(threads) IN
        /\ Ended(t)
        /\ threads' = Tail(threads)
        /\ IF pc[t] = "finished"
           THEN /\ retval' = Append(retval, result[t])
                /\ UNCHANGED <<pc, holder, poisoned>>
           ELSE /\ Panic(Dispatcher)
                /\ UNCHANGED retval
    /\ UNCHANGED <<count, cv_waiters, got, histVars, items, failOn, next,
                   result, outcome>>

\* lines 36-37: while let Some(t) = threads.pop() { retval.push(t.join().unwrap()) }
\* join blocks until the thread has ended; it returns Err for a thread that
\* panicked, on which unwrap() panics
Join ==
    /\ pc[Dispatcher] = "join_pop"
    /\ threads # <<>>
    /\ LET t == threads[Len(threads)] IN
        /\ Ended(t)
        /\ threads' = SubSeq(threads, 1, Len(threads) - 1)
        /\ IF pc[t] = "finished"
           THEN /\ retval' = Append(retval, result[t])
                /\ UNCHANGED <<pc, holder, poisoned>>
           ELSE /\ Panic(Dispatcher)
                /\ UNCHANGED retval
    /\ UNCHANGED <<count, cv_waiters, got, histVars, items, failOn, next,
                   result, outcome>>

\* lines 39-41: the scope ends once every thread spawned in it has ended, and
\* process returns retval
ScopeExit ==
    /\ pc[Dispatcher] = "join_pop"
    /\ threads = <<>>
    /\ \A t \in Task : Spawned(t) => Ended(t)
    /\ outcome' = "returned"
    /\ Goto(Dispatcher, "finished")
    /\ UNCHANGED <<semVars, got, histVars, items, failOn, next, threads,
                   result, retval>>

\* line 26: when the closure of thread::scope panics, the scope still waits
\* for every thread spawned in it, and then the panic leaves process
ScopeUnwind ==
    /\ pc[Dispatcher] = "panicked"
    /\ outcome = "running"
    /\ \A t \in Task : Spawned(t) => Ended(t)
    /\ outcome' = "panicked"
    /\ UNCHANGED <<semVars, pc, got, histVars, items, failOn, next, threads,
                   result, retval>>

NextProc ==
    \/ ForNext \/ Spawn \/ Join \/ ScopeExit \/ ScopeUnwind
    \/ \E t \in Thread :
        \/ TaskStart(t) \/ TaskEval(t) \/ TaskReturn(t)
        \/ WaitStep(t) \/ SpuriousWakeup(t) \/ ReleaseStep(t)

SpecProc == InitProc /\ [][NextProc]_vars

(***************************************************************************)
(* Scheduling.  A thread that can take a step eventually takes one; a      *)
(* thread that tries to lock the mutex gets it if the mutex is free again  *)
(* and again.  Nothing makes a spurious wakeup happen, and nothing makes a *)
(* caller of the semaphore call it again.  The transform terminates.       *)
(***************************************************************************)
LockStep(t) == WaitLock(t) \/ WaitRelock(t) \/ ReleaseLock(t) \/ GetLock(t)

SemStep(t) ==
    \/ WaitTest(t) \/ WaitDec(t) \/ WaitReturn(t) \/ WaitWhile(t)
    \/ ReleaseInc(t) \/ ReleaseNotify(t) \/ ReleaseUnlock(t) \/ GetRead(t)

ProcStep(t) ==
    \/ TaskStart(t) \/ TaskEval(t) \/ TaskReturn(t)
    \/ (t = Dispatcher /\ (ForNext \/ Spawn \/ Join \/ ScopeExit \/ ScopeUnwind))

Fairness ==
    \A t \in Thread :
        /\ WF_vars(SemStep(t) \/ ProcStep(t))
        /\ SF_vars(LockStep(t))

FairSpecSem == SpecSem /\ Fairness
FairSpecProc == SpecProc /\ Fairness

(***************************************************************************)
(* The semaphore built with one of the largest values of a u32: the same   *)
(* callers as in SpecSem, the count starting within MaxInit of 2^32 - 1.   *)
(***************************************************************************)
InitSemTop ==
    /\ \E d \in 0 .. MaxInit :
           SemaphoreNew([hi |-> U32Max.hi, lo |-> U32Max.lo - d])
    /\ pc = [t \in Thread |-> "idle"]
    /\ NoProcess

SpecSemTop == InitSemTop /\ [][NextSem]_vars

(***************************************************************************)
(* What the claims speak of.                                               *)
(***************************************************************************)
\* the number a small u32 stands for
ToNat(c) == c.hi * Limb + c.lo

\* the u32 read as a two's-complement integer is negative: what a count that
\* went below zero looks like
Negative(c) == c.hi >= Limb \div 2

\* thread t is inside wait() and has not yet found the count positive
Waiting(t) ==
    pc[t] \in {"wait_lock", "wait_test", "wait_while", "wait_asleep",
               "wait_relock"}
\* thread t is blocked inside wait(): it saw a zero count and has not since
\* found the count positive
BlockedInWait(t) == pc[t] \in {"wait_asleep", "wait_relock"}

\* the bag of the elements of a sequence
BagOfSeq(s) ==
    [x \in {s[i] : i \in DOMAIN s} |-> Cardinality({i \in DOMAIN s : s[i] = x})]

Workers == ToNat(initial_value)
NoItemFails == \A i \in DOMAIN items : items[i] \notin failOn
Evaluating == {t \in Task : pc[t] = "task_eval"}

(***************************************************************************)
(* C1.  Under every interleaving of wait() and release() calls the count   *)
(* never goes below zero: wait() never reaches its decrement with a zero   *)
(* count, no subtraction overflows (no thread panics, the count never      *)
(* wraps), and get_current_value() never returns a negative value.         *)
(***************************************************************************)
C1_CountNeverNegative ==
    /\ ~Negative(count)
    /\ \A t \in Thread :
        /\ pc[t] = "wait_dec" => ~IsZero(count)
        /\ pc[t] # "panicked"
        /\ got[t] # NoValue => ~Negative(got[t])

\* the count is zero after a wait() took the last unit, another caller sleeps
\* in wait(), and a third has read the value
C1_Witness ==
    /\ IsZero(count)
    /\ \E t, u, w \in Task :
        /\ pc[t] = "wait_done"
        /\ pc[u] = "wait_asleep"
        /\ pc[w] = "get_done" /\ got[w] = U32(0)

(***************************************************************************)
(* C2.  Conservation: once every thread has finished its calls, as many    *)
(* wait() as release() calls having been completed (as is the case when    *)
(* each thread made as many of the one as of the other), the count is the  *)
(* initial value again, and that is what a get_current_value() taken then  *)
(* reads.                                                                  *)
(***************************************************************************)
C2_Conservation ==
    ( /\ \A t \in Thread : Between(t) \/ pc[t] \in {"get_lock", "get_read"}
      /\ nWait = nRel )
    => count = initial_value

\* two wait() -> release() cycles have been run, by two callers whose last
\* call was the release(), and a third caller is about to read the value
C2_Witness ==
    /\ nWait = 2 /\ nRel = 2
    /\ \E t, u, w \in Task :
        /\ t # u
        /\ pc[t] = "rel_done" /\ pc[u] = "rel_done"
        /\ pc[w] = "get_read"
    /\ ~IsZero(initial_value)

(***************************************************************************)
(* C3.  When process returns, for a transform that does not fail, the      *)
(* result has exactly one element per item and its bag is the bag of the   *)
(* transform's values on the items.                                        *)
(***************************************************************************)
C3_ResultsAreTheImage ==
    (outcome = "returned" /\ NoItemFails)
    => /\ Len(retval) = Len(items)
       /\ BagOfSeq(retval) = BagOfSeq([i \in DOMAIN items |-> Predicate(items[i])])

\* process has returned the results of MaxTasks items, two of them equal, with
\* fewer workers than items
C3_Witness ==
    /\ outcome = "returned"
    /\ Len(items) = MaxTasks /\ Len(retval) = MaxTasks
    /\ items[1] = items[2] /\ items[1] # items[MaxTasks]
    /\ Workers < Len(items)

(***************************************************************************)
(* C4.  At most `workers` tasks evaluate the transform at any instant.     *)
(***************************************************************************)
C4_AtMostWorkersEvaluate == Cardinality(Evaluating) <= Workers

\* `workers` tasks evaluate the transform, one more item is left and the
\* dispatcher sleeps in wait() for it
C4_Witness ==
    /\ Workers >= 1
    /\ Cardinality(Evaluating) = Workers
    /\ Workers < Len(items)
    /\ pc[Dispatcher] = "wait_asleep"

(***************************************************************************)
(* C5.  A transform that panics in a task makes the process call end in    *)
(* that panic: whenever a task has panicked, the call eventually leaves    *)
(* with the panic, and it never returns a result.                          *)
(***************************************************************************)
TaskPanicked == \E t \in Task : pc[t] = "panicked"

C5_FailurePropagates ==
    /\ [](TaskPanicked => outcome # "returned")
    /\ (TaskPanicked ~> outcome = "panicked")

(***************************************************************************)
(* C6.  On a semaphore initialized to N: while no release() has            *)
(* incremented the count at most N wait() calls complete, so a further     *)
(* caller stays inside wait(); with one release() at most N + 1 complete,  *)
(* so of several blocked callers one proceeds and the others stay blocked, *)
(* and the count is 0 once it has; and the one release() does let a        *)
(* blocked caller proceed.                                                 *)
(***************************************************************************)
C6_BlocksUntilRelease ==
    /\ [](nRel = 0 => nWait <= Workers)
    /\ [](nRel = 1 => nWait <= Workers + 1)
    /\ []((nRel = 1 /\ nWait = Workers + 1) => IsZero(count))
    /\ ((nRel = 1 /\ nWait = Workers
            /\ \E t \in Task : BlockedInWait(t))
        ~> nWait = Workers + 1)

\* N callers hold the semaphore, one release() has been made, one of two
\* blocked callers has returned from wait() and the other sleeps
C6_Witness ==
    /\ Workers = 1 /\ nRel = 1 /\ nWait = 2
    /\ IsZero(count)
    /\ \E t, u \in Task :
        /\ t # u
        /\ pc[t] = "wait_done"
        /\ pc[u] = "wait_asleep"

(***************************************************************************)
(* C7.  The test and the decrement of wait() happen while the caller holds *)
(* the mutex, and no unit is consumed twice: the wait() calls that have    *)
(* completed their decrement are at most the initial value plus the        *)
(* release() calls that have incremented.                                  *)
(***************************************************************************)
C7_NoUnitConsumedTwice ==
    /\ nWait <= Workers + nRel
    /\ \A t \in Thread :
        pc[t] \in {"wait_test", "wait_dec", "wait_ret", "wait_while"}
            => holder = t

\* every unit has been consumed, and a caller that was woken finds the count
\* zero when it re-checks
C7_Witness ==
    /\ nRel >= 1
    /\ nWait = Workers + nRel
    /\ \E t, u \in Task :
        /\ pc[t] = "wait_while" /\ IsZero(count)
        /\ pc[u] = "wait_asleep"

(***************************************************************************)
(* C8.  With at least one worker and a transform that fails on no item,    *)
(* process returns under fair scheduling, and no state is a deadlock: the  *)
(* dispatcher is never waiting in wait() on a zero count, nor in join,     *)
(* when every spawned task has ended.                                      *)
(***************************************************************************)
AllSpawnedEnded == \A t \in Task : Spawned(t) => Ended(t)

DispatcherStuck ==
    /\ AllSpawnedEnded
    /\ \/ Waiting(Dispatcher) /\ IsZero(count)
       \/ pc[Dispatcher] = "join_pop" /\ threads # <<>>
            /\ ~Ended(threads[Len(threads)])

C8_ProcessReturns ==
    (Workers >= 1 /\ NoItemFails)
    => ([]~DispatcherStuck /\ <>(outcome = "returned"))

\* process has returned after the dispatcher waited for each of MaxTasks
\* items with a single worker
C8_Witness ==
    /\ outcome = "returned"
    /\ Workers = 1
    /\ nWait = MaxTasks

(***************************************************************************)
(* C9.  When one thread alone calls wait() and then release() on a         *)
(* semaphore made by new(v), get_current_value() reads v - 1 between the   *)
(* two calls and v after them.                                             *)
(***************************************************************************)
\* no other thread has called the semaphore
Alone(t) == \A u \in Thread \ {t} : pc[u] = "idle"

C9_WaitThenRelease ==
    \A t \in Task :
        (Alone(t) /\ pc[t] = "get_done" /\ nWait = 1)
        => /\ nRel = 0 => ToNat(got[t]) + 1 = ToNat(initial_value)
           /\ nRel = 1 => got[t] = initial_value

\* a lone thread has called wait() and release() on new(MaxInit) and has read
\* the value after them
C9_Witness ==
    \E t \in Task :
        /\ Alone(t) /\ pc[t] = "get_done"
        /\ nWait = 1 /\ nRel = 1
        /\ initial_value = U32(MaxInit) /\ got[t] = U32(MaxInit)

(***************************************************************************)
(* C10.  As claimed: the spawned threads that have not yet ended are at    *)
(* most `workers` at every instant.                                        *)
(***************************************************************************)
Live == {t \in Task : Spawned(t) /\ ~Ended(t)}

C10_AtMostWorkersExist == Cardinality(Live) <= Workers

(***************************************************************************)
(* C10, amended.  The spawned tasks that have not yet given their unit     *)
(* back (whose release() has not yet incremented the count) are at most    *)
(* `workers` at every instant; the spawned threads that have not yet ended *)
(* may be more, up to the number of items.                                 *)
(***************************************************************************)
HoldingUnit ==
    {t \in Task : pc[t] \in {"task_start", "task_eval", "rel_lock", "rel_inc",
                             "panicked"}}

C10_AtMostWorkersHoldUnit ==
    /\ Cardinality(HoldingUnit) <= Workers
    /\ Cardinality(Live) <= Len(items)

\* with one worker the threads of all MaxTasks items are alive at once, one of
\* them holding the unit
C10_Witness ==
    /\ Workers = 1
    /\ Len(items) = MaxTasks
    /\ Cardinality(Live) = MaxTasks
    /\ Cardinality(HoldingUnit) = 1

(***************************************************************************)
(* C11.  When process has returned, every task it spawned has finished and *)
(* every permit is back: the count is `workers` again, and nothing holds   *)
(* the mutex or sleeps on the condition variable.                          *)
(***************************************************************************)
C11_NothingOutlivesTheCall ==
    outcome = "returned"
    => /\ \A t \in Task : Spawned(t) => pc[t] = "finished"
       /\ \A i \in DOMAIN items : Spawned(i)
       /\ count = initial_value
       /\ holder = NoThread /\ cv_waiters = {}

\* process has returned after MaxTasks tasks ran on two workers
C11_Witness ==
    /\ outcome = "returned"
    /\ Len(items) = MaxTasks
    /\ \A t \in Task : pc[t] = "finished"
    /\ initial_value = U32(2) /\ count = U32(2)

(***************************************************************************)
(* C12.  With an empty input, process never calls wait() and never spawns  *)
(* a task; whatever `workers` is (0 included) the dispatcher is never      *)
(* blocked: until the call has returned its next step is enabled, and what *)
(* it returns is the empty vector.                                         *)
(***************************************************************************)
C12_EmptyInput ==
    items = <<>>
    => /\ pc[Dispatcher] \in {"for_next", "join_pop", "finished"}
       /\ nWait = 0 /\ nRel = 0 /\ count = initial_value
       /\ \A t \in Task : ~Spawned(t)
       /\ threads = <<>> /\ retval = <<>>
       /\ outcome \in {"running", "returned"}
       /\ outcome = "running" => ENABLED (ForNext \/ ScopeExit)

\* process has returned the empty vector with workers = 0
C12_Witness ==
    /\ items = <<>>
    /\ IsZero(initial_value)
    /\ outcome = "returned"
    /\ retval = <<>>

(***************************************************************************)
(* C13.  With workers = 0 and a non-empty input, the dispatcher never gets *)
(* past the wait() of the first item: it is at the head of the loop or     *)
(* inside that wait() before the decrement, the count stays 0, no wait()   *)
(* completes, no task is spawned, the transform is applied to nothing, and *)
(* the call neither returns nor fails.                                     *)
(***************************************************************************)
C13_ZeroWorkersBlocks ==
    (IsZero(initial_value) /\ items # <<>>)
    => /\ outcome = "running"
       /\ pc[Dispatcher] = "for_next" \/ Waiting(Dispatcher)
       /\ pc[Dispatcher] = "for_next" => next = 0
       /\ Waiting(Dispatcher) => next = 1
       /\ IsZero(count) /\ nWait = 0 /\ nRel = 0 /\ ~poisoned
       /\ \A t \in Task : ~Spawned(t) /\ result[t] = 0
       /\ threads = <<>> /\ retval = <<>>

\* the dispatcher sleeps on the condition variable for the first item
C13_Witness ==
    /\ IsZero(initial_value)
    /\ Len(items) = MaxTasks
    /\ pc[Dispatcher] = "wait_asleep"
    /\ Dispatcher \in cv_waiters
    /\ holder = NoThread

(***************************************************************************)
(* C14.  release() is not capped by the initial value: the count is always *)
(* the initial value plus the releases done minus the waits done, so k     *)
(* unmatched releases leave it at v + k, which get_current_value() reads;  *)
(* and a wait() is kept asleep only by a count of zero, so each of those k *)
(* units lets one more wait() through.                                     *)
(***************************************************************************)
C14_ReleaseUncapped ==
    /\ [](/\ WrappingAdd(count, nWait) = WrappingAdd(initial_value, nRel)
          /\ \A t \in cv_waiters : holder = NoThread => IsZero(count))
    /\ [][\A t \in Task :
              (pc[t] = "get_read" /\ pc'[t] = "get_done")
              => WrappingAdd(got'[t], nWait) = WrappingAdd(initial_value, nRel)
         ]_vars

\* built with 0, released twice: the value read was 2, and two waits took
\* the two units
C14_Witness ==
    /\ IsZero(initial_value)
    /\ nRel = 2 /\ nWait = 2
    /\ IsZero(count)
    /\ \E t \in Task : pc[t] = "get_done" /\ got[t] = U32(2)
    /\ \A t \in Task : pc[t] \in {"idle", "wait_done", "rel_done", "get_done"}

(***************************************************************************)
(* C15.  release() has no failure mode, whatever the count is: no caller   *)
(* panics, the mutex is never poisoned, and the count a release() has just *)
(* written is the count it found plus 1, hence never 0.                    *)
(***************************************************************************)
C15_ReleaseAlwaysSucceeds ==
    /\ ~poisoned
    /\ \A t \in Task :
           /\ pc[t] # "panicked"
           /\ pc[t] = "rel_notify" => ~IsZero(count)

\* thread t is inside a critical section of the semaphore's mutex
InCriticalSection(t) ==
    pc[t] \in {"wait_test", "wait_dec", "wait_ret", "wait_while",
               "rel_inc", "rel_notify", "rel_unlock", "get_read"}

(***************************************************************************)
(* C16.  get_current_value() only observes.  It reads the count while it   *)
(* holds the mutex, so no wait() or release() is inside its critical       *)
(* section at that instant; it is never on the condition variable; its     *)
(* read step is enabled whatever the count is and returns that count; and  *)
(* its steps leave the count, the sleepers and every other thread as they  *)
(* were.                                                                   *)
(***************************************************************************)
C16_GetOnlyObserves ==
    /\ [](\A t \in Task :
             /\ pc[t] \in {"get_lock", "get_read", "get_done"}
                => t \notin cv_waiters
             /\ pc[t] = "get_read"
                => /\ holder = t
                   /\ \A u \in Task \ {t} : ~InCriticalSection(u)
                   /\ ENABLED GetRead(t))
    /\ [][\A t \in Task :
              (pc[t] \in {"get_lock", "get_read"} /\ pc'[t] # pc[t])
              => /\ count' = count /\ cv_waiters' = cv_waiters
                 /\ nWait' = nWait /\ nRel' = nRel /\ poisoned' = poisoned
                 /\ \A u \in Task \ {t} : pc'[u] = pc[u]
                 /\ pc[t] = "get_lock" => pc'[t] = "get_read"
                 /\ pc[t] = "get_read"
                    => pc'[t] = "get_done" /\ got'[t] = count
         ]_vars

\* a get_current_value() has returned 0 while another thread sleeps in wait()
C16_Witness ==
    \E t, u \in Task :
        /\ pc[t] = "get_done" /\ got[t] = U32(0)
        /\ pc[u] = "wait_asleep" /\ u \in cv_waiters
        /\ IsZero(count)

\* the tasks spawned so far, and those whose handle has been joined
SpawnedTasks == {t \in Task : Spawned(t)}
JoinedTasks == {t \in SpawnedTasks : \A i \in DOMAIN threads : threads[i] # t}

\* task t has applied the transform, has incremented the count
Transformed(t) ==
    pc[t] \in {"rel_lock", "rel_inc", "rel_notify", "rel_unlock", "rel_done",
               "finished"}
Released(t) == pc[t] \in {"rel_notify", "rel_unlock", "rel_done", "finished"}

\* the dispatcher has decremented the count for item `next`, not yet spawned
UnitInHand == pc[Dispatcher] \in {"wait_ret", "wait_done"}

\* the dispatcher is still in the for loop of lines 28-35
Dispatching ==
    pc[Dispatcher] = "for_next" \/ Waiting(Dispatcher) \/ UnitInHand
    \/ pc[Dispatcher] = "wait_dec"

(***************************************************************************)
(* C17.  The order of events of each item: its wait() is completed before  *)
(* its task is spawned (one completed wait per spawned task, plus the one  *)
(* in hand); the items are spawned in input order, one at a time; a task   *)
(* calls release() only after its transform has ended, and once, so a      *)
(* release never comes before the wait it pairs with; a task is joined     *)
(* only after it has ended; and nothing is joined while the dispatcher is  *)
(* still in the for loop.                                                  *)
(***************************************************************************)
C17_OrderOfEvents ==
    /\ SpawnedTasks = 1 .. (IF Dispatching /\ pc[Dispatcher] # "for_next"
                            THEN next - 1 ELSE next)
    /\ nWait = Cardinality(SpawnedTasks) + (IF UnitInHand THEN 1 ELSE 0)
    /\ nRel = Cardinality({t \in Task : Released(t)})
    /\ nRel <= nWait
    /\ \A t \in Task :
           /\ Transformed(t) => result[t] = Predicate(items[t])
           /\ pc[t] \in {"unspawned", "task_start", "task_eval", "panicked"}
              => result[t] = 0
           /\ t \in JoinedTasks => Ended(t)
    /\ Dispatching
       => /\ JoinedTasks = {} /\ retval = <<>>
          /\ threads = [i \in 1 .. Cardinality(SpawnedTasks) |-> i]
    /\ JoinedTasks # {} => next = Len(items)
    /\ Len(retval) <= Cardinality(JoinedTasks)

\* the first item has gone through all five events, the second is being
\* released, the dispatcher has the third in hand
C17_Witness ==
    /\ Len(items) = MaxTasks
    /\ pc[1] = "finished" /\ pc[2] = "rel_inc"
    /\ pc[Dispatcher] = "wait_done" /\ next = 3
    /\ nWait = 3 /\ nRel = 1
\* [f(x_n), ..., f(x_1)]: the transform applied to the input, last item first
ReversedImage ==
    [i \in 1 .. Len(items) |-> Predicate(items[Len(items) + 1 - i])]

(***************************************************************************)
(* C18.  The result is the image of the input in reverse input order,      *)
(* whatever the interleaving: retval is at all times a prefix of           *)
(* [f(x_n), ..., f(x_1)], and is the whole of it when process returns.     *)
(***************************************************************************)
C18_ReverseOrder ==
    /\ Len(retval) <= Len(items)
    /\ retval = SubSeq(ReversedImage, 1, Len(retval))
    /\ outcome = "returned" => retval = ReversedImage

\* returned the reversed image of an input that is not its own reverse
C18_Witness ==
    /\ outcome = "returned"
    /\ Len(items) = MaxTasks
    /\ items[1] # items[MaxTasks]
    /\ retval = ReversedImage
    /\ retval # [i \in 1 .. Len(items) |-> Predicate(items[i])]

(***************************************************************************)
(* C19.  No wakeup is lost.  Whenever no thread holds the mutex and the    *)
(* count is positive, no thread sleeps on the condition variable without   *)
(* having been notified.  Hence, under fair scheduling, a thread does not  *)
(* stay inside wait() for ever while units are there: whenever initial     *)
(* value plus releases covers the waits, every wait() returns.             *)
(***************************************************************************)
C19_NoLostWakeup ==
    /\ []((holder = NoThread /\ ~IsZero(count)) => cv_waiters = {})
    /\ \A t \in Task :
           (Waiting(t) /\ ~IsZero(count)) ~> (pc[t] = "wait_done" \/ IsZero(count))

\* a release has woken a sleeper that now finds a unit to take
C19_Witness ==
    \E t \in Task :
        /\ pc[t] = "wait_relock"
        /\ holder = NoThread
        /\ ~IsZero(count)
        /\ cv_waiters = {}
        /\ IsZero(initial_value) /\ nRel = 1 /\ nWait = 0

\* the permits that are out: taken by a completed wait(), not yet given back
PermitsOut == Cardinality(HoldingUnit) + (IF UnitInHand THEN 1 ELSE 0)

(***************************************************************************)
(* C20.  Permit accounting inside process: the count plus the permits that *)
(* are out (items whose wait() has completed and whose task has not yet    *)
(* incremented the count) is `workers`, in particular whenever no critical *)
(* section is in progress; hence the count never exceeds `workers` and the *)
(* releases done never exceed the waits done.                              *)
(***************************************************************************)
C20_PermitAccounting ==
    /\ WrappingAdd(count, PermitsOut) = initial_value
    /\ PermitsOut = nWait - nRel
    /\ count.hi = 0 /\ count.lo <= initial_value.lo
    /\ nRel <= nWait

\* no transform fails, no critical section is in progress: of two permits
\* one is in the count and one is out, after a first release
C20_Witness ==
    /\ NoItemFails
    /\ holder = NoThread
    /\ initial_value = U32(2) /\ count = U32(1)
    /\ PermitsOut = 1
    /\ nRel >= 1

====
